---------------------------- MODULE Spec2Model ----------------------------
(***************************************************************************)
(* Model of filter_plugins/comprehension.py: the Jinja2 filters one,       *)
(* to_map, format_items, flatten_list, list_values, list_keys,             *)
(* to_kv_pairs, map_keys and filter_by_key (Python 2).                     *)
(*                                                                         *)
(* Python values are <<tag, value>> pairs.  A str is a sequence of         *)
(* one-character strings, a list / tuple / set is the sequence of its      *)
(* elements in                                                             *)
(* iteration order, a dict is the sequence of its <<key, value>> pairs in  *)
(* iteration order (keys pairwise different under ==).  A raised exception *)
(* is the value Raise(kind); it propagates through every operator.         *)
(***************************************************************************)
EXTENDS Integers, Sequences, FiniteSets, TLC

VARIABLES
    filter,   \* name of the filter the host has called, "none" before the call
    pre,      \* the arguments as they were when the call started
    args,     \* the same argument objects when the call has ended
    out       \* what the call produced: the returned value, or Raise(kind)

vars == <<filter, pre, args, out>>

---------------------------------------------------------------------------
(* Bounds of the model *)

\* longest input sequence / largest input mapping
MaxLen == 2
\* integers in the inputs are 0 .. MaxInt
MaxInt == 2

---------------------------------------------------------------------------
(* Python values *)

PyNone       == <<"none">>
PyBool(b)    == <<"bool", b>>
PyInt(n)     == <<"int", n>>
PyStr(s)     == <<"str", s>>
PyList(s)    == <<"list", s>>
PyTuple(s)   == <<"tuple", s>>
PySet(s)     == <<"set", s>>
PyDict(s)    == <<"dict", s>>
Raise(e)     == <<"raise", e>>

\* the type tag of a value and what it holds
Tag(x) == x[1]
Val(x) == x[2]

IsRaise(x) == Tag(x) = "raise"

scalar_types == {"str", "int", "bool"}
list_types   == {"list", "set", "tuple"}
dict_types   == {"dict"}

\* bool is a subclass of int: True == 1, False == 0
IsNum(x) == Tag(x) \in {"int", "bool"}
Num(x)   == IF Tag(x) = "bool" THEN (IF Val(x) THEN 1 ELSE 0) ELSE Val(x)

\* bool(x)
Truth(x) ==
    CASE Tag(x) = "none" -> FALSE
      [] Tag(x) = "bool" -> Val(x)
      [] Tag(x) = "int"  -> Val(x) # 0
      [] Tag(x) \in {"str", "list", "tuple", "set", "dict"} -> Len(Val(x)) > 0

\* hash(x) succeeds
RECURSIVE Hashable(_)
Hashable(x) ==
    CASE Tag(x) \in {"none", "bool", "int", "str"} -> TRUE
      [] Tag(x) = "tuple" -> \A i \in 1..Len(Val(x)) : Hashable(Val(x)[i])
      [] Tag(x) \in {"list", "set", "dict"} -> FALSE

\* a == b
RECURSIVE PyEq(_, _)
PyEq(a, b) ==
    IF IsNum(a) /\ IsNum(b) THEN Num(a) = Num(b)
    ELSE IF Tag(a) # Tag(b) THEN FALSE
    ELSE IF Tag(a) \in {"list", "tuple"}
         THEN /\ Len(Val(a)) = Len(Val(b))
              /\ \A i \in 1..Len(Val(a)) : PyEq(Val(a)[i], Val(b)[i])
    ELSE a = b

\* ord(c) for the characters the inputs use
Ord(c) ==
    CASE c = "," -> 44 [] c = "-" -> 45 [] c = "." -> 46
      [] c = "0" -> 48 [] c = "1" -> 49 [] c = "2" -> 50 [] c = "3" -> 51
      [] c = "4" -> 52 [] c = "5" -> 53 [] c = "6" -> 54 [] c = "7" -> 55
      [] c = "8" -> 56 [] c = "9" -> 57 [] c = "=" -> 61
      [] c = "a" -> 97 [] c = "b" -> 98 [] c = "d" -> 100 [] c = "e" -> 101
      [] c = "f" -> 102 [] c = "i" -> 105 [] c = "l" -> 108 [] c = "n" -> 110
      [] c = "p" -> 112 [] c = "r" -> 114 [] c = "s" -> 115 [] c = "t" -> 116
      [] c = "u" -> 117 [] c = "v" -> 118 [] c = "x" -> 120
      [] c = "{" -> 123 [] c = "}" -> 125

\* s < t for two str, character by character
RECURSIVE StrLt(_, _)
StrLt(s, u) ==
    IF u = <<>> THEN FALSE
    ELSE IF s = <<>> THEN TRUE
    ELSE IF Ord(Head(s)) # Ord(Head(u)) THEN Ord(Head(s)) < Ord(Head(u))
    ELSE StrLt(Tail(s), Tail(u))

\* Python 2 orders values of different types: None first, then numbers, then
\* the other types by type name
TypeRank(x) ==
    CASE Tag(x) = "none"  -> 0
      [] IsNum(x)      -> 1
      [] Tag(x) = "dict"  -> 2
      [] Tag(x) = "list"  -> 3
      [] Tag(x) = "str"   -> 4
      [] Tag(x) = "tuple" -> 5

\* a < b; two containers of the same type are outside the modelled inputs
PyLt(a, b) ==
    CASE TypeRank(a) # TypeRank(b) -> TypeRank(a) < TypeRank(b)
      [] Tag(a) = "none" /\ Tag(b) = "none" -> FALSE
      [] IsNum(a) /\ IsNum(b) -> Num(a) < Num(b)
      [] Tag(a) = "str" /\ Tag(b) = "str" -> StrLt(Val(a), Val(b))

---------------------------------------------------------------------------
(* dict operations; d is the pair sequence of a dict *)

\* k in d
Has(d, k) == \E i \in 1..Len(d) : PyEq(d[i][1], k)

\* d.get(k)
Get(d, k) ==
    IF Has(d, k)
    THEN d[CHOOSE i \in 1..Len(d) : PyEq(d[i][1], k)][2]
    ELSE PyNone

\* d[k] = x: an existing key keeps its place and its key object
DictSet(d, k, x) ==
    IF Has(d, k)
    THEN [i \in 1..Len(d) |-> IF PyEq(d[i][1], k) THEN <<d[i][1], x>> ELSE d[i]]
    ELSE Append(d, <<k, x>>)

\* d.keys() and d.values()
DictKeys(d)   == [i \in 1..Len(d) |-> d[i][1]]
DictValues(d) == [i \in 1..Len(d) |-> d[i][2]]

---------------------------------------------------------------------------
(* str operations; a str value is PyStr(<<c1, ..., cn>>) *)

DigitChars == <<"0", "1", "2", "3", "4", "5", "6", "7", "8", "9">>
IsDigit(c) == \E n \in 1..Len(DigitChars) : DigitChars[n] = c
DigitVal(c) == (CHOOSE n \in 1..Len(DigitChars) : DigitChars[n] = c) - 1

\* str(n) for an int
RECURSIVE NatStr(_)
NatStr(n) ==
    IF n < Len(DigitChars) THEN <<DigitChars[n + 1]>>
    ELSE NatStr(n \div Len(DigitChars)) \o <<DigitChars[(n % Len(DigitChars)) + 1]>>

IntStr(n) == IF n < 0 THEN <<"-">> \o NatStr(-n) ELSE NatStr(n)

\* str(x), as str.format and str() render a None, bool, int or str
ToStr(x) ==
    CASE Tag(x) = "none" -> <<"N", "o", "n", "e">>
      [] Tag(x) = "bool" -> IF Val(x) THEN <<"T", "r", "u", "e">>
                                ELSE <<"F", "a", "l", "s", "e">>
      [] Tag(x) = "int"  -> IntStr(Val(x))
      [] Tag(x) = "str"  -> Val(x)

\* index of the first c in s at or after position i, 0 when there is none
RECURSIVE Find(_, _, _)
Find(s, c, i) ==
    IF i > Len(s) THEN 0
    ELSE IF s[i] = c THEN i
    ELSE Find(s, c, i + 1)

\* the text before a rendered remainder r (a str or a raised error)
Cat(prefix, r) == IF IsRaise(r) THEN r ELSE PyStr(prefix \o Val(r))

\* fmt.format(*a) from position i on; auto counts the "{}" fields seen so far.
\* Replacement fields are "{}", "{<digit>}" and "{<name>}"; "{{" and "}}"
\* are the escaped braces.
RECURSIVE FormatFrom(_, _, _, _)
FormatFrom(fmt, i, a, auto) ==
    IF i > Len(fmt) THEN PyStr(<<>>)
    ELSE IF fmt[i] = "{" THEN
        IF i < Len(fmt) /\ fmt[i + 1] = "{"
        THEN Cat(<<"{">>, FormatFrom(fmt, i + 2, a, auto))
        ELSE LET j    == Find(fmt, "}", i + 1)
                 name == SubSeq(fmt, i + 1, j - 1)
                 idx  == IF name = <<>> THEN auto ELSE DigitVal(name[1])
             IN  IF j = 0 THEN Raise("ValueError")
                 ELSE IF name # <<>> /\ ~(Len(name) = 1 /\ IsDigit(name[1]))
                      THEN Raise("KeyError")
                 ELSE IF idx >= Len(a) THEN Raise("IndexError")
                 ELSE Cat(ToStr(a[idx + 1]),
                          FormatFrom(fmt, j + 1, a,
                                     IF name = <<>> THEN auto + 1 ELSE auto))
    ELSE IF fmt[i] = "}" THEN
        IF i < Len(fmt) /\ fmt[i + 1] = "}"
        THEN Cat(<<"}">>, FormatFrom(fmt, i + 2, a, auto))
        ELSE Raise("ValueError")
    ELSE Cat(<<fmt[i]>>, FormatFrom(fmt, i + 1, a, auto))

\* fmt.format(*a)
Format(fmt, a) == FormatFrom(fmt, 1, a, 0)

\* s.split(sep) for a non-empty sep: the pieces between the occurrences of
\* sep, scanning left to right; cur is the piece being read
RECURSIVE SplitFrom(_, _, _)
SplitFrom(s, sep, cur) ==
    IF s = <<>> THEN <<PyStr(cur)>>
    ELSE IF Len(s) >= Len(sep) /\ SubSeq(s, 1, Len(sep)) = sep
         THEN <<PyStr(cur)>> \o SplitFrom(SubSeq(s, Len(sep) + 1, Len(s)), sep, <<>>)
    ELSE SplitFrom(Tail(s), sep, Append(cur, Head(s)))

\* s.split(sep): the list of pieces, ValueError("empty separator") for ""
Split(s, sep) ==
    IF sep = <<>> THEN Raise("ValueError") ELSE PyList(SplitFrom(s, sep, <<>>))

\* sep.join(toks) for a sequence of character sequences
RECURSIVE Join(_, _)
Join(sep, toks) ==
    IF toks = <<>> THEN <<>>
    ELSE IF Len(toks) = 1 THEN toks[1]
    ELSE toks[1] \o sep \o Join(sep, Tail(toks))

\* the number a non-empty digit string denotes
RECURSIVE NatVal(_)
NatVal(s) ==
    IF Len(s) = 1 THEN DigitVal(s[1])
    ELSE NatVal(SubSeq(s, 1, Len(s) - 1)) * Len(DigitChars) + DigitVal(s[Len(s)])

\* json.loads(x) for the literals null, true, false and the integers; any
\* other text of the modelled inputs is no JSON text (ValueError), and a
\* value that is no str is refused (TypeError)
JsonLoads(x) ==
    IF Tag(x) # "str" THEN Raise("TypeError")
    ELSE LET s      == Val(x)
             digits == IF s # <<>> /\ s[1] = "-" THEN Tail(s) ELSE s
         IN  CASE s = <<"n", "u", "l", "l">> -> PyNone
               [] s = <<"t", "r", "u", "e">> -> PyBool(TRUE)
               [] s = <<"f", "a", "l", "s", "e">> -> PyBool(FALSE)
               [] /\ digits # <<>>
                  /\ \A i \in 1..Len(digits) : IsDigit(digits[i])
                  /\ (Len(digits) > 1 => digits[1] # "0")
                    -> PyInt(IF digits = s THEN NatVal(digits) ELSE -NatVal(digits))
               [] OTHER -> Raise("ValueError")

---------------------------------------------------------------------------
(* The filters *)

\* one(l) without the n > 1 branch: the first of several elements is returned
one_first(l) ==
    IF Len(Val(l)) = 0 THEN Raise("ValueError") ELSE Val(l)[1]

\* one(l)
one(l) ==
    LET n == Len(Val(l))
    IN  IF n > 1 THEN Raise("ValueError")
        ELSE IF n = 0 THEN Raise("ValueError")
        ELSE Val(l)[1]

\* f = lambda z,k: z.get(k) if z else None, of to_map and of map_keys; an
\* exception raised at an earlier path segment ends the reduce
path_get(z, k) ==
    IF IsRaise(z) THEN z
    ELSE IF ~Truth(z) THEN PyNone
    ELSE IF Tag(z) = "dict" THEN Get(Val(z), k)
    ELSE Raise("AttributeError")

\* reduce(f, p, z) for that f: the lookups of the path segments p, from
\* segment i on, starting at z
RECURSIVE reduce_path(_, _, _)
reduce_path(p, i, z) ==
    IF i > Len(p) THEN z ELSE reduce_path(p, i + 1, path_get(z, p[i]))

\* the loop of to_map over l from item i on; res is the dict built so far
RECURSIVE to_map_loop(_, _, _, _)
to_map_loop(l, p, i, res) ==
    IF i > Len(l) THEN PyDict(res)
    ELSE LET x == l[i]
             k == reduce_path(p, 1, x)
         IN  IF IsRaise(k) THEN k
             ELSE IF ~Truth(k) THEN to_map_loop(l, p, i + 1, res)
             ELSE IF ~Hashable(k) THEN Raise("TypeError")
             ELSE to_map_loop(l, p, i + 1, DictSet(res, k, x))

\* to_map(l, item_key, path_delimiter)
to_map(l, item_key, path_delimiter) ==
    LET p == Split(Val(item_key), Val(path_delimiter))
    IN  IF IsRaise(p) THEN p ELSE to_map_loop(Val(l), Val(p), 1, <<>>)

\* [fmt.format(x) for x in it], from element i on
RECURSIVE format_items_from(_, _, _)
format_items_from(it, fmt, i) ==
    IF i > Len(it) THEN PyList(<<>>)
    ELSE LET h == Format(fmt, <<it[i]>>)
             r == format_items_from(it, fmt, i + 1)
         IN  IF IsRaise(h) THEN h
             ELSE IF IsRaise(r) THEN r
             ELSE PyList(<<h>> \o Val(r))

\* format_items(it, fmt)
format_items(it, fmt) == format_items_from(Val(it), Val(fmt), 1)

\* list_values(d) and list_keys(d)
list_values(d) == PyList(DictValues(Val(d)))
list_keys(d)   == PyList(DictKeys(Val(d)))

\* f = lambda k, v: '{0}={1}'.format(k, v) if v else str(k)
kv_token(k, v) ==
    IF Truth(v) THEN Format(<<"{", "0", "}", "=", "{", "1", "}">>, <<k, v>>)
    ELSE PyStr(ToStr(k))

\* the condition of the comprehension without "not v or"
kv_included_scalars_only(v) == Tag(v) \in scalar_types

\* the condition of the comprehension: not v or isinstance(v, scalar_types)
kv_included(v) == ~Truth(v) \/ Tag(v) \in scalar_types

\* [f(k, v) for k, v in d.items() if ...], from entry i on
RECURSIVE kv_tokens(_, _)
kv_tokens(d, i) ==
    IF i > Len(d) THEN <<>>
    ELSE IF kv_included(d[i][2])
         THEN <<Val(kv_token(d[i][1], d[i][2]))>> \o kv_tokens(d, i + 1)
    ELSE kv_tokens(d, i + 1)

\* to_kv_pairs(d, sep)
to_kv_pairs(d, sep) == PyStr(Join(Val(sep), kv_tokens(Val(d), 1)))

\* "Find set of keys": the keys of d for '*', else keys itself, which the
\* assert takes only as a list or a set
find_keys(d, keys) ==
    IF PyEq(keys, PyStr(<<"*">>)) THEN PyList(DictKeys(Val(d)))
    ELSE IF Tag(keys) \in {"list", "set"} THEN keys
    ELSE Raise("AssertionError")

\* {k: reduce(f, source_path.format(k).split(path_delimiter), d) for k in keys},
\* from key i on
RECURSIVE map_keys_path(_, _, _, _, _, _)
map_keys_path(d, ks, source_path, path_delimiter, i, res) ==
    IF i > Len(ks) THEN PyDict(res)
    ELSE LET k == ks[i]
             s == Format(source_path, <<k>>)
             p == Split(Val(s), path_delimiter)
             x == reduce_path(Val(p), 1, d)
         IN  IF IsRaise(s) THEN s
             ELSE IF IsRaise(p) THEN p
             ELSE IF IsRaise(x) THEN x
             ELSE IF ~Hashable(k) THEN Raise("TypeError")
             ELSE map_keys_path(d, ks, source_path, path_delimiter, i + 1,
                                DictSet(res, k, x))

\* {k: d.get(k) for k in keys}, from key i on
RECURSIVE map_keys_get(_, _, _, _)
map_keys_get(d, ks, i, res) ==
    IF i > Len(ks) THEN PyDict(res)
    ELSE IF ~Hashable(ks[i]) THEN Raise("TypeError")
    ELSE map_keys_get(d, ks, i + 1, DictSet(res, ks[i], Get(Val(d), ks[i])))

\* {k: d[k] for k in keys if k in d}: the keys d lacks are left out
map_keys_present(d, ks) ==
    map_keys_get(d, SelectSeq(ks, LAMBDA k : Has(Val(d), k)), 1, <<>>)

\* the else branch of "Map keys to values"
map_keys_plain(d, ks) == map_keys_get(d, ks, 1, <<>>)

\* {k: json.loads(v) for k, v in res.iteritems()}, from entry i on
RECURSIVE decode_values(_, _)
decode_values(res, i) ==
    IF i > Len(res) THEN PyDict(<<>>)
    ELSE LET x == JsonLoads(res[i][2])
             r == decode_values(res, i + 1)
         IN  IF IsRaise(x) THEN x
             ELSE IF IsRaise(r) THEN r
             ELSE PyDict(<<(<<res[i][1], x>>)>> \o Val(r))

\* map_keys(d, keys, source_path, path_delimiter, decode_json)
map_keys(d, keys, source_path, path_delimiter, decode_json) ==
    LET ks  == find_keys(d, keys)
        res == IF Tag(source_path) = "str"
               THEN map_keys_path(d, Val(ks), Val(source_path), Val(path_delimiter), 1, <<>>)
               ELSE map_keys_plain(d, Val(ks))
    IN  IF IsRaise(ks) THEN ks
        ELSE IF IsRaise(res) THEN res
        ELSE IF decode_json THEN decode_values(Val(res), 1)
        ELSE res

\* the names of the dispatch tables
unary_ops  == {"not", "truth", "is", "is_not"}
binary_ops == {"eq", "le", "ge", "lt", "gt", "ne"}

\* unary_ops[op](x): operator.not_ and operator.truth take one argument;
\* operator.is_ and operator.is_not take two, and a call with one raises
unary_call(op, x) ==
    CASE op = "not"   -> PyBool(~Truth(x))
      [] op = "truth" -> PyBool(Truth(x))
      [] op \in {"is", "is_not"} -> Raise("TypeError")

\* binary_ops[op](a, b)
binary_call(op, a, b) ==
    CASE op = "eq" -> PyBool(PyEq(a, b))
      [] op = "ne" -> PyBool(~PyEq(a, b))
      [] op = "lt" -> PyBool(PyLt(a, b))
      [] op = "le" -> PyBool(PyLt(a, b) \/ PyEq(a, b))
      [] op = "gt" -> PyBool(PyLt(b, a))
      [] op = "ge" -> PyBool(PyLt(b, a) \/ PyEq(a, b))

\* pred = lambda x: key in x
pred_exists(x, key) == PyBool(Has(Val(x), key))

\* pred = lambda x: (key in x) and t(x.get(key))
pred_unary(x, key, op) ==
    IF Has(Val(x), key) THEN unary_call(op, Get(Val(x), key)) ELSE PyBool(FALSE)

\* pred = lambda x: t(x.get(key), value), without the membership test
pred_binary_no_membership(x, key, op, value) ==
    binary_call(op, Get(Val(x), key), value)

\* pred = lambda x: (key in x) and t(x.get(key), value)
pred_binary(x, key, op, value) ==
    IF Has(Val(x), key) THEN binary_call(op, Get(Val(x), key), value) ELSE PyBool(FALSE)

\* the pred that filter_by_key builds for op
pred(x, key, op, value) ==
    IF op = "exists" THEN pred_exists(x, key)
    ELSE IF op \in unary_ops THEN pred_unary(x, key, op)
    ELSE pred_binary(x, key, op, value)

\* filter(pred, l), from item i on: the items whose pred is true, in order;
\* Python 2 builds the whole list, so an exception of pred ends the call
RECURSIVE filter_from(_, _, _, _, _)
filter_from(l, key, op, value, i) ==
    IF i > Len(l) THEN PyList(<<>>)
    ELSE LET b == pred(l[i], key, op, value)
             r == filter_from(l, key, op, value, i + 1)
         IN  IF IsRaise(b) THEN b
             ELSE IF IsRaise(r) THEN r
             ELSE IF Truth(b) THEN PyList(<<l[i]>> \o Val(r))
             ELSE r

\* filter_by_key(l, key, op, value)
filter_by_key(l, key, op, value) ==
    IF op # "exists" /\ op \notin unary_ops /\ op \notin binary_ops
    THEN Raise("ValueError")
    ELSE filter_from(Val(l), key, op, value, 1)

\* pres.append(y): pres is the accumulator object of the reduce.  obj tells
\* which object it is (0: the list flatten_list created, i > 0: element i of
\* the argument), val is that object's value, err the exception raised
list_append(pres, y) ==
    IF Tag(pres.val) = "list"
    THEN [pres EXCEPT !.val = PyList(Append(Val(pres.val), y))]
    ELSE [pres EXCEPT !.err = "AttributeError"]

\* pres = _flatten_list(pres, yy) for the elements yy of ys, from element i
\* on: the for loop of _flatten_list and the reduce of flatten_list
RECURSIVE _flatten_list(_, _), flatten_each(_, _, _)
flatten_each(ys, i, pres) ==
    IF i > Len(ys) THEN pres
    ELSE flatten_each(ys, i + 1, _flatten_list(pres, ys[i]))

\* _flatten_list(pres, y) with isinstance(y, list) in place of list_types:
\* sets and tuples are appended whole
_flatten_list_only_list(pres, y) ==
    IF pres.err # "" THEN pres
    ELSE IF Tag(y) # "list" THEN list_append(pres, y)
    ELSE flatten_each(Val(y), 1, pres)

\* _flatten_list(pres, y)
_flatten_list(pres, y) ==
    IF pres.err # "" THEN pres
    ELSE IF Tag(y) \notin list_types THEN list_append(pres, y)
    ELSE flatten_each(Val(y), 1, pres)

\* what a reduce over l leaves: the value returned (or the exception), and
\* the argument l with the accumulator's value written back where the
\* accumulator is one of l's own elements
flatten_result(l, acc) ==
    [out |-> IF acc.err # "" THEN Raise(acc.err) ELSE acc.val,
     l   |-> IF acc.obj = 0 THEN l ELSE [l EXCEPT ![2][acc.obj] = acc.val]]

\* reduce(_flatten_list, l) with no initial value: the accumulator is l[0]
flatten_list_no_initial(l) ==
    IF Val(l) = <<>> THEN [out |-> Raise("TypeError"), l |-> l]
    ELSE flatten_result(l, flatten_each(Val(l), 2,
                                        [obj |-> 1, val |-> Val(l)[1], err |-> ""]))

\* flatten_list(l): reduce(_flatten_list, l, [])
flatten_list(l) ==
    flatten_result(l, flatten_each(Val(l), 1,
                                   [obj |-> 0, val |-> PyList(<<>>), err |-> ""]))

---------------------------------------------------------------------------
(* The inputs the host passes *)

\* the sequences over S of length 0 .. n
SeqsUpTo(S, n) == UNION {[1..k -> S] : k \in 0..n}

\* the dicts of at most n entries with keys from K and values from V
DictsUpTo(K, V, n) ==
    {PyDict([i \in 1..Len(ks) |-> <<ks[i], vs[i]>>]) :
        <<ks, vs>> \in UNION {
            {ks \in [1..k -> K] : \A i, j \in 1..k : i # j => ~PyEq(ks[i], ks[j])}
                \X [1..k -> V] : k \in 0..n}}

s_empty == PyStr(<<>>)
s_a     == PyStr(<<"a">>)
s_b     == PyStr(<<"b">>)
s_c     == PyStr(<<"c">>)
s_j     == PyStr(<<"j">>)
s_k     == PyStr(<<"k">>)
s_p     == PyStr(<<"p">>)
s_v     == PyStr(<<"v">>)
s_x     == PyStr(<<"x">>)
s_id    == PyStr(<<"i", "d">>)
s_dot   == PyStr(<<".">>)
s_dash  == PyStr(<<"-">>)
s_comma == PyStr(<<",">>)
s_star  == PyStr(<<"*">>)

Ints    == {PyInt(n) : n \in 0..MaxInt}
Scalars == {PyNone, PyBool(TRUE), PyBool(FALSE), s_empty, s_a, s_b} \cup Ints

\* one(l)
OneLists ==
    {PyList(s) : s \in SeqsUpTo(Scalars \cup {PyList(<<>>), PyDict(<<<<s_a, PyInt(1)>>>>)},
                                MaxLen)}

\* to_map(l, item_key, path_delimiter)
ToMapItems ==
    { PyDict(<<<<s_id, s_a>>, <<s_v, PyInt(1)>>>>),
      PyDict(<<<<s_id, s_b>>, <<s_v, PyInt(2)>>>>),
      PyDict(<<<<s_id, s_a>>, <<s_v, PyInt(2)>>>>),
      PyDict(<<<<s_id, PyInt(0)>>, <<s_v, PyInt(1)>>>>),
      PyDict(<<<<s_id, PyInt(1)>>>>),
      PyDict(<<<<s_id, PyBool(TRUE)>>>>),
      PyDict(<<<<s_id, s_empty>>>>),
      PyDict(<<<<s_id, PyNone>>>>),
      PyDict(<<<<s_id, PyList(<<PyInt(1)>>)>>>>),
      PyDict(<<<<s_v, PyInt(1)>>>>),
      PyDict(<<>>),
      PyDict(<<<<s_a, PyDict(<<<<s_b, s_x>>>>)>>>>),
      PyDict(<<<<s_a, PyDict(<<>>)>>>>),
      PyDict(<<<<s_a, PyInt(1)>>>>) }
ToMapLists == {PyList(s) : s \in SeqsUpTo(ToMapItems, MaxLen)}
ToMapKeys  == {s_id, PyStr(<<"a", ".", "b">>), PyStr(<<"a", "-", "b">>)}
Delimiters == {s_dot, s_dash, s_empty}

\* format_items(it, fmt)
FormatLists == {PyList(s) : s \in SeqsUpTo(Scalars, MaxLen)}
Formats ==
    { PyStr(<<"{", "0", "}">>), PyStr(<<"v", "-", "{", "0", "}">>),
      PyStr(<<"{", "0", "}", "=", "{", "0", "}">>), PyStr(<<"{", "}">>),
      PyStr(<<"{", "{", "{", "0", "}", "}", "}">>), PyStr(<<"{", "1", "}">>),
      PyStr(<<"{", "x", "}">>), PyStr(<<"{", "0">>), PyStr(<<"0", "}">>),
      s_x }

\* flatten_list(l): leaves, the sequences of leaves, and deeper nestings
FlatLeaves == {PyInt(1), PyInt(2), PyDict(<<<<s_a, PyList(<<PyInt(1)>>)>>>>)}
FlatInner  ==
    {PyList(s) : s \in SeqsUpTo(FlatLeaves, 2)}
    \cup {PyTuple(s) : s \in SeqsUpTo(FlatLeaves, 2)}
    \cup {PySet(<<PyInt(2), PyInt(1)>>)}
FlatDeep ==
    { PyList(<<PyInt(1), PyList(<<PyInt(2), PyInt(0)>>)>>),
      PyList(<<PyList(<<>>)>>),
      PyTuple(<<PyList(<<PyTuple(<<PyInt(1)>>), PyInt(2)>>), PyInt(0)>>) }
FlatLists ==
    {PyList(s) : s \in SeqsUpTo(FlatLeaves \cup {s_a} \cup FlatInner \cup FlatDeep,
                                MaxLen)}

\* list_values(d), list_keys(d), to_kv_pairs(d, sep)
KvKeys   == {s_a, s_b, PyInt(1)}
KvValues ==
    Scalars \cup { PyList(<<>>), PyList(<<PyInt(1)>>), PyTuple(<<>>),
                   PyDict(<<>>), PyDict(<<<<s_a, PyInt(1)>>>>) }
KvDicts  == DictsUpTo(KvKeys, KvValues, MaxLen)
Separators == {s_comma, s_empty}

\* map_keys(d, keys, source_path, path_delimiter, decode_json)
MapDicts ==
    { PyDict(<<<<s_a, PyInt(1)>>, <<s_b, PyInt(2)>>>>),
      PyDict(<<<<s_a, PyStr(<<"1">>)>>, <<s_b, PyStr(<<"t", "r", "u", "e">>)>>>>),
      PyDict(<<<<s_a, s_x>>, <<PyInt(1), s_b>>>>),
      PyDict(<<>>),
      PyDict(<<<<s_p, PyDict(<<<<s_a, PyInt(1)>>, <<s_b, PyInt(0)>>>>)>>>>),
      PyDict(<<<<s_p, PyDict(<<>>)>>>>),
      PyDict(<<<<s_p, PyInt(0)>>>>),
      PyDict(<<<<s_p, PyInt(1)>>>>),
      PyDict(<<<<s_p, s_x>>>>),
      PyDict(<<<<s_p, PyList(<<PyInt(1)>>)>>>>),
      PyDict(<<<<s_a, PyDict(<<<<s_v, PyStr(<<"2">>)>>>>)>>, <<s_b, PyNone>>>>) }
MapKeyItems == {s_a, s_b, s_c}
KeysArgs ==
    {s_star, s_a, PyStr(<<"a", "b">>), PyInt(1), PyNone,
     PySet(<<s_b, s_a>>), PyList(<<PyInt(1), PyBool(TRUE)>>)}
    \cup {PyList(s) : s \in SeqsUpTo(MapKeyItems, MaxLen)}
    \cup {PyTuple(s) : s \in SeqsUpTo(MapKeyItems, MaxLen)}
SourcePaths ==
    { PyNone, PyStr(<<"{", "0", "}">>), PyStr(<<"p", ".", "{", "0", "}">>),
      PyStr(<<"{", "0", "}", ".", "v">>), PyStr(<<"p", ".", "{", "1", "}">>) }
MapDelimiters == {s_dot, s_empty}

\* filter_by_key(l, key, op, value)
FilterItems ==
    { PyDict(<<<<s_k, PyInt(1)>>>>), PyDict(<<<<s_k, PyInt(2)>>>>),
      PyDict(<<<<s_k, PyInt(0)>>, <<s_j, PyInt(1)>>>>),
      PyDict(<<<<s_k, PyNone>>>>), PyDict(<<<<s_k, s_a>>>>),
      PyDict(<<<<s_k, s_empty>>>>), PyDict(<<<<s_k, PyList(<<PyInt(1)>>)>>>>),
      PyDict(<<<<s_j, PyInt(2)>>>>), PyDict(<<>>) }
FilterLists  == {PyList(s) : s \in SeqsUpTo(FilterItems, MaxLen)}
FilterKeys   == {s_k, s_j}
FilterOps    == {"exists", "in"} \cup unary_ops \cup binary_ops
FilterValues == {PyNone, PyBool(TRUE), s_a, s_b} \cup Ints

---------------------------------------------------------------------------
(* The calls *)

Init ==
    /\ filter = "none"
    /\ pre = <<>>
    /\ args = <<>>
    /\ out = PyNone

One ==
    /\ filter = "none"
    /\ \E l \in OneLists :
        /\ filter' = "one"
        /\ pre' = [l |-> l]
        /\ args' = [l |-> l]
        /\ out' = one(l)

ToMap ==
    /\ filter = "none"
    /\ \E l \in ToMapLists, item_key \in ToMapKeys, path_delimiter \in Delimiters :
        /\ filter' = "to_map"
        /\ pre' = [l |-> l, item_key |-> item_key, path_delimiter |-> path_delimiter]
        /\ args' = pre'
        /\ out' = to_map(l, item_key, path_delimiter)

FormatItems ==
    /\ filter = "none"
    /\ \E it \in FormatLists, fmt \in Formats :
        /\ filter' = "format_items"
        /\ pre' = [it |-> it, fmt |-> fmt]
        /\ args' = pre'
        /\ out' = format_items(it, fmt)

\* the only filter that changes an object: _flatten_list appends to pres
FlattenList ==
    /\ filter = "none"
    /\ \E l \in FlatLists :
        /\ filter' = "flatten_list"
        /\ pre' = [l |-> l]
        /\ args' = [l |-> flatten_list(l).l]
        /\ out' = flatten_list(l).out

ListValues ==
    /\ filter = "none"
    /\ \E d \in KvDicts :
        /\ filter' = "list_values"
        /\ pre' = [d |-> d]
        /\ args' = pre'
        /\ out' = list_values(d)

ListKeys ==
    /\ filter = "none"
    /\ \E d \in KvDicts :
        /\ filter' = "list_keys"
        /\ pre' = [d |-> d]
        /\ args' = pre'
        /\ out' = list_keys(d)

ToKvPairs ==
    /\ filter = "none"
    /\ \E d \in KvDicts, sep \in Separators :
        /\ filter' = "to_kv_pairs"
        /\ pre' = [d |-> d, sep |-> sep]
        /\ args' = pre'
        /\ out' = to_kv_pairs(d, sep)

MapKeys ==
    /\ filter = "none"
    /\ \E d \in MapDicts, keys \in KeysArgs, source_path \in SourcePaths,
          path_delimiter \in MapDelimiters, decode_json \in BOOLEAN :
        /\ filter' = "map_keys"
        /\ pre' = [d |-> d, keys |-> keys, source_path |-> source_path,
                   path_delimiter |-> path_delimiter, decode_json |-> decode_json]
        /\ args' = pre'
        /\ out' = map_keys(d, keys, source_path, path_delimiter, decode_json)

FilterByKey ==
    /\ filter = "none"
    /\ \E l \in FilterLists, key \in FilterKeys, op \in FilterOps :
        \E value \in IF op \in binary_ops THEN FilterValues ELSE {PyNone} :
            /\ filter' = "filter_by_key"
            /\ pre' = [l |-> l, key |-> key, op |-> op, value |-> value]
            /\ args' = pre'
            /\ out' = filter_by_key(l, key, op, value)

Next ==
    \/ One
    \/ ToMap
    \/ FormatItems
    \/ FlattenList
    \/ ListValues
    \/ ListKeys
    \/ ToKvPairs
    \/ MapKeys
    \/ FilterByKey

Spec == Init /\ [][Next]_vars

---------------------------------------------------------------------------
(* What the specification says of the filters, stated on its own terms *)

\* item contains key (a key is found by ==)
Contains(x, key) == \E i \in 1..Len(Val(x)) : PyEq(Val(x)[i][1], key)

\* item[key]
ItemValue(x, key) == Val(x)[CHOOSE i \in 1..Len(Val(x)) : PyEq(Val(x)[i][1], key)][2]

\* a <operator> b, with the order total: a <= b is "not b < a"
Holds(op, a, b) ==
    CASE op = "eq" -> PyEq(a, b)
      [] op = "ne" -> ~PyEq(a, b)
      [] op = "lt" -> PyLt(a, b)
      [] op = "gt" -> PyLt(b, a)
      [] op = "le" -> ~PyLt(b, a)
      [] op = "ge" -> ~PyLt(a, b)

\* the named unary test on a value; is / is_not test against none
UnaryHolds(op, a) ==
    CASE op = "not"    -> ~Truth(a)
      [] op = "truth"  -> Truth(a)
      [] op = "is"     -> a = PyNone
      [] op = "is_not" -> a # PyNone

\* successive nested lookups of the key path p into z; the missing-value
\* marker as soon as a lookup fails, whatever the intermediate value is
RECURSIVE Resolved(_, _)
Resolved(z, p) ==
    IF p = <<>> THEN z
    ELSE IF Tag(z) = "dict" /\ Contains(z, p[1]) THEN Resolved(ItemValue(z, p[1]), Tail(p))
    ELSE PyNone

\* the leaves of x, depth first and left to right
RECURSIVE Leaves(_), LeavesOfEach(_)
LeavesOfEach(s) ==
    IF s = <<>> THEN <<>> ELSE Leaves(Head(s)) \o LeavesOfEach(Tail(s))
Leaves(x) ==
    IF Tag(x) \in {"list", "set", "tuple"} THEN LeavesOfEach(Val(x)) ELSE <<x>>

---------------------------------------------------------------------------
(* Claims *)

\* C1: filter_by_key with a unary operator (not, truth, is, is_not) returns,
\* without raising, exactly the items that contain key and whose item[key]
\* passes the named unary test, is / is_not testing against none; also when
\* some item contains key.
C1_UnaryOperatorsReturnMatches ==
    (filter = "filter_by_key" /\ pre.op \in unary_ops) =>
        out = PyList(SelectSeq(Val(pre.l),
                LAMBDA x : /\ Contains(x, pre.key)
                           /\ UnaryHolds(pre.op, ItemValue(x, pre.key))))

\* C2: for exists and the binary operators, filter_by_key returns the
\* subsequence of l, in input order, of exactly the items that contain key
\* and (binary operator) satisfy item[key] <operator> value; and no item
\* without key is ever in a result, whatever the operator.
C2_BinaryOperatorsSelect ==
    filter = "filter_by_key" =>
        /\ pre.op \in {"exists"} \cup binary_ops =>
             out = PyList(SelectSeq(Val(pre.l),
                     LAMBDA x : /\ Contains(x, pre.key)
                                /\ \/ pre.op = "exists"
                                   \/ Holds(pre.op, ItemValue(x, pre.key), pre.value)))
        /\ ~IsRaise(out) => \A i \in 1..Len(Val(out)) : Contains(Val(out)[i], pre.key)

\* a call with gt that drops an item without key, drops an item whose value
\* fails the comparison and keeps one
C2_Witness ==
    /\ filter = "filter_by_key"
    /\ pre.op = "gt"
    /\ pre.value = PyInt(1)
    /\ pre.l = PyList(<<PyDict(<<>>), PyDict(<<<<s_k, PyInt(2)>>>>)>>)
    /\ pre.key = s_k
    /\ out = PyList(<<PyDict(<<<<s_k, PyInt(2)>>>>)>>)

\* the key path that map_keys looks up for key k
InstantiatedPath(source_path, path_delimiter, k) ==
    Val(Split(Val(Format(Val(source_path), <<k>>)), Val(path_delimiter)))

\* the keys a call of map_keys asks for
RequestedKeys(d, keys) == IF keys = s_star THEN DictKeys(Val(d)) ELSE Val(keys)

\* a call of map_keys whose keys the code takes, whose template every key
\* instantiates and whose delimiter is not empty
PathCall ==
    /\ filter = "map_keys"
    /\ Tag(pre.source_path) = "str"
    /\ ~pre.decode_json
    /\ pre.path_delimiter # s_empty
    /\ pre.keys = s_star \/ Tag(pre.keys) \in {"list", "set"}
    /\ \A i \in 1..Len(RequestedKeys(pre.d, pre.keys)) :
          /\ Hashable(RequestedKeys(pre.d, pre.keys)[i])
          /\ ~IsRaise(Format(Val(pre.source_path), <<RequestedKeys(pre.d, pre.keys)[i]>>))

\* C3: with a source_path template, map_keys resolves every requested key's
\* instantiated key path by successive nested lookups into d and yields the
\* missing-value marker, never an error, whenever an intermediate lookup
\* fails: absent, falsy, or a present non-mapping value.
C3_PathLookupNeverRaises ==
    PathCall =>
        /\ ~IsRaise(out)
        /\ \A i \in 1..Len(RequestedKeys(pre.d, pre.keys)) :
              LET k == RequestedKeys(pre.d, pre.keys)[i]
              IN  Get(Val(out), k) =
                    Resolved(pre.d, InstantiatedPath(pre.source_path,
                                                     pre.path_delimiter, k))

\* C4: map_keys takes keys when it is "*" or a list, set or tuple of keys,
\* and fails on its check of keys (the TypeError-kind error, raised by the
\* assert) when keys is anything else.
C4_KeysAccepted ==
    filter = "map_keys" =>
        (out = Raise("AssertionError")) =
            ~(pre.keys = s_star \/ Tag(pre.keys) \in {"list", "set", "tuple"})

\* the tokens of the entries of d: none for a truthy non-scalar value, the
\* bare key for a falsy value, key=value otherwise
RECURSIVE ExpectedTokens(_)
ExpectedTokens(d) ==
    IF d = <<>> THEN <<>>
    ELSE LET k == d[1][1]
             x == d[1][2]
         IN  (CASE ~Truth(x) -> <<ToStr(k)>>
                [] Truth(x) /\ Tag(x) \in {"str", "int", "bool"} ->
                       <<ToStr(k) \o <<"=">> \o ToStr(x)>>
                [] OTHER -> <<>>)
             \o ExpectedTokens(Tail(d))

\* C5: to_kv_pairs(d, sep) is the sep-joined list, in d's iteration order,
\* of one token per entry whose value is a scalar or falsy: the bare key for
\* a falsy value (empty sequences and mappings too), key=value otherwise; a
\* truthy non-scalar value gives no token.
C5_KvPairsTokens ==
    filter = "to_kv_pairs" =>
        out = PyStr(Join(Val(pre.sep), ExpectedTokens(Val(pre.d))))

\* a mapping with a falsy non-scalar value, rendered as the bare key, and a
\* truthy non-scalar value, left out
C5_Witness ==
    /\ filter = "to_kv_pairs"
    /\ pre.d = PyDict(<<<<s_a, PyList(<<>>)>>, <<s_b, PyList(<<PyInt(1)>>)>>>>)
    /\ out = s_a

\* the resolved key of item x for a call of to_map
ResolvedKey(x) == Resolved(x, Val(Split(Val(pre.item_key), Val(pre.path_delimiter))))

\* C6: for every sequence l of mapping items and every item_key, to_map
\* returns a mapping whose key set is exactly the truthy resolved keys of the
\* items, each key mapped to the last item of l that resolves to it; an item
\* whose resolved key is falsy or whose path fails at an intermediate gives
\* no entry, and an empty l gives an empty mapping.  (Stated for a non-empty
\* delimiter and resolved keys that can be keys of a mapping.)
C6_ToMapLastItemWins ==
    ( /\ filter = "to_map"
      /\ pre.path_delimiter # s_empty
      /\ \A i \in 1..Len(Val(pre.l)) : Hashable(ResolvedKey(Val(pre.l)[i])) ) =>
        /\ Tag(out) = "dict"
        /\ \A i \in 1..Len(Val(pre.l)) :
              Truth(ResolvedKey(Val(pre.l)[i])) => Has(Val(out), ResolvedKey(Val(pre.l)[i]))
        /\ \A j \in 1..Len(Val(out)) :
              LET hits == {i \in 1..Len(Val(pre.l)) :
                              /\ Truth(ResolvedKey(Val(pre.l)[i]))
                              /\ PyEq(ResolvedKey(Val(pre.l)[i]), Val(out)[j][1])}
              IN  /\ hits # {}
                  /\ Val(out)[j][2] = Val(pre.l)[CHOOSE i \in hits : \A h \in hits : h <= i]
        /\ \A i, j \in 1..Len(Val(out)) : i # j => ~PyEq(Val(out)[i][1], Val(out)[j][1])
        /\ Val(pre.l) = <<>> => Val(out) = <<>>

\* C7: flatten_list(x) is the list of the non-sequence leaves of x in
\* depth-first, left-to-right order: nested lists, sets and tuples are
\* expanded at any depth, empty ones add nothing, a mapping is one leaf.
C7_FlattenIsLeaves ==
    filter = "flatten_list" => out = PyList(Leaves(pre.l))

\* a sequence nested three deep beside a mapping leaf
C7_Witness ==
    /\ filter = "flatten_list"
    /\ pre.l = PyList(<<
          PyTuple(<<PyList(<<PyTuple(<<PyInt(1)>>), PyInt(2)>>), PyInt(0)>>),
          PyList(<<PyDict(<<<<s_a, PyList(<<PyInt(1)>>)>>>>)>>) >>)
    /\ out = PyList(<<PyInt(1), PyInt(2), PyInt(0),
                      PyDict(<<<<s_a, PyList(<<PyInt(1)>>)>>>>)>>)

\* C8: one(l) returns the element of l when l has exactly one element and
\* fails (the ValueError that one raises: no value) when l has none or more
\* than one.
C8_OneSoleElement ==
    filter = "one" =>
        IF Len(Val(pre.l)) = 1 THEN out = Val(pre.l)[1] ELSE out = Raise("ValueError")

\* one called on a sequence of more than one element has failed
C8_Witness ==
    /\ filter = "one"
    /\ Len(Val(pre.l)) > 1
    /\ out = Raise("ValueError")

\* C9: with no source_path (and no decoding), for keys that map_keys takes,
\* the result is a mapping whose key set is exactly the requested keys (the
\* keys of d for "*"), each with the value d[key], or the missing-value
\* marker where d has no such key; map_keys(d, "*") equals d.
C9_PlainLookup ==
    ( /\ filter = "map_keys"
      /\ pre.source_path = PyNone
      /\ ~pre.decode_json
      /\ pre.keys = s_star \/ Tag(pre.keys) \in {"list", "set"} ) =>
        LET ks == RequestedKeys(pre.d, pre.keys)
        IN  /\ Tag(out) = "dict"
            /\ \A i \in 1..Len(ks) :
                  /\ Has(Val(out), ks[i])
                  /\ Get(Val(out), ks[i]) =
                        IF Contains(pre.d, ks[i]) THEN ItemValue(pre.d, ks[i])
                        ELSE PyNone
            /\ \A j \in 1..Len(Val(out)) : \E i \in 1..Len(ks) : PyEq(ks[i], Val(out)[j][1])
            /\ \A i, j \in 1..Len(Val(out)) : i # j => ~PyEq(Val(out)[i][1], Val(out)[j][1])
            /\ pre.keys = s_star => out = pre.d

\* keys name a key that d has and a key that d lacks
C9_Witness ==
    /\ filter = "map_keys"
    /\ pre.source_path = PyNone
    /\ ~pre.decode_json
    /\ pre.d = PyDict(<<<<s_a, PyInt(1)>>, <<s_b, PyInt(2)>>>>)
    /\ pre.keys = PyList(<<s_c, s_a>>)
    /\ out = PyDict(<<<<s_c, PyNone>>, <<s_a, PyInt(1)>>>>)

\* C10: no filter changes any of its arguments: after every call, returned
\* or failed, every argument equals what it was when the call started.
C10_ArgumentsUnchanged ==
    filter # "none" => args = pre

\* flatten_list has appended leaves to its accumulator
C10_Witness ==
    /\ filter = "flatten_list"
    /\ Val(pre.l) # <<>>
    /\ Tag(Val(pre.l)[1]) = "list"
    /\ Len(Val(out)) > Len(Val(Val(pre.l)[1]))
    /\ args = pre

=============================================================================
